---- MODULE Spec2Model ----
(***************************************************************************)
(* UTM/UPS grid resolver of utm.cpp (Karney/Kawase version).               *)
(*                                                                         *)
(* Angles are fixed-point integers in millidegrees (RAD(x) is x degrees in *)
(* that unit), so every comparison and the zone quotient of the resolver   *)
(* is computed exactly.  The projection primitives are transcendental; the *)
(* value a primitive writes is modelled as a symbolic term over exactly    *)
(* the arguments the written expression reads, so equal terms are equal    *)
(* doubles.                                                                *)
(***************************************************************************)
EXTENDS Integers, Sequences, FiniteSets, TLC

VARIABLES a, e2, lat_rad, lon_rad, zone, hemi, N, E, ret, zone_req, hemi_req, call,
          lat_inv, lon_inv, ret_inv, zone_inv, hemi_inv, call_inv,
          thread, frame,
          direct, legacy

\* the forward call: its inputs, outputs and the primitive it called
fwd == <<lat_rad, lon_rad, zone, hemi, N, E, ret, zone_req, hemi_req, call>>
\* the inverse call: its zone and hemisphere arguments, outputs and primitive
inv == <<lat_inv, lon_inv, ret_inv, zone_inv, hemi_inv, call_inv>>

\* concurrent callers: each thread's own variables and program counter, and
\* the stack frames of the calls in progress
thr == <<thread, frame>>

\* a primitive called directly, as the test programs do: the forward
\* transverse Mercator call, and the inverse call of the DMATM series with
\* its position in the iteration
prm == <<direct, legacy>>

vars == <<a, e2, fwd, inv, thr, prm>>

---------------------------------------------------------------------------
(* enum GridZone, enum Hemisphere *)

UTM_ZONE_AUTO == 0
UPS_NORTH == 61
UPS_SOUTH == 62
GRID_AUTO == 63

HEMI_AUTO == 0
HEMI_NORTH == 1
HEMI_SOUTH == 2

(* grid constants; the scale factors are in units of 1/10000 *)

UTM_K0 == 9996
UTM_FN_NH == 0
UTM_FN_SH == 10000000
UTM_FE == 500000

UPS_K0 == 9940
UPS_FN == 2000000
UPS_FE == 2000000

RAD(x) == x * 1000

---------------------------------------------------------------------------
(* bounds of the checked input space *)

\* offsets, in millidegrees, taken on each side of every breakpoint
Eps == 1
\* whole turns of 360 degrees added to or taken from a longitude
MaxTurns == 1
\* threads converting at the same time
NThreads == 2

---------------------------------------------------------------------------
(* C library and casts *)

\* fmod(x, m) for m > 0: the remainder has the sign of x
Fmod(x, m) == IF x >= 0 THEN x % m ELSE -((-x) % m)

---------------------------------------------------------------------------
(* projection primitives: the values written through N and E *)

NoCall == [prim |-> "none"]

\* a double holding exactly v metres, exactly v millidegrees
Metres(v) == <<"m", v>>
Angle(v) == <<"mdeg", v>>

\* tan(M_PI/4 -+ lat_rad/2) is exactly 0 at the pole of the hemisphere
AtPole(h, lat) ==
  \/ h = HEMI_NORTH /\ lat = RAD(90)
  \/ h = HEMI_SOUTH /\ lat = RAD(-90)

geographic_to_tm_sphere(R, k0, lon_mer, FN, FE, lat, lon) ==
  [N |-> <<"tm_sphere.N", R, k0, FN, lat, lon - lon_mer>>,
   E |-> <<"tm_sphere.E", R, k0, FE, lat, lon - lon_mer>>]

\* the easting without the case of the central meridian
geographic_to_tm_NoMeridianCase(a_, e2_, k0, lon_mer, FN, FE, lat, lon) ==
  [N |-> <<"tm.N", a_, e2_, k0, FN, lat, lon - lon_mer>>,
   E |-> <<"tm.E", a_, e2_, k0, FE, lat, lon - lon_mer>>]

\* eta = atanh(sin(lon_rad-lon_mer)/sqrt(1.+t*t)) is exactly 0 when lon_rad
\* and lon_mer are the same double, every term of the easting series has the
\* factor eta or sinh(2*i*eta), and FE + k0*A*0 is FE
geographic_to_tm(a_, e2_, k0, lon_mer, FN, FE, lat, lon) ==
  [N |-> <<"tm.N", a_, e2_, k0, FN, lat, lon - lon_mer>>,
   E |-> IF lon - lon_mer = 0
         THEN Metres(FE)
         ELSE <<"tm.E", a_, e2_, k0, FE, lat, lon - lon_mer>>]

\* the series of DMATM 8358.2: *E = FE + dl*(T6 + dl2*T7 + dl4*T8 + dl6*T9)
\* with dl = lon_rad - lon_mer
dmatm_geographic_to_tm(a_, e2_, k0, lon_mer, FN, FE, lat, lon) ==
  [N |-> <<"dmatm.N", a_, e2_, k0, FN, lat, lon - lon_mer>>,
   E |-> IF lon - lon_mer = 0
         THEN Metres(FE)
         ELSE <<"dmatm.E", a_, e2_, k0, FE, lat, lon - lon_mer>>]

\* N is written only for HEMI_NORTH and HEMI_SOUTH
geographic_to_ps_sphere(R, k0, h, FN, FE, lat, lon, N0, E0) ==
  IF h = HEMI_NORTH \/ h = HEMI_SOUTH
  THEN IF AtPole(h, lat)
       THEN [N |-> Metres(FN), E |-> Metres(FE)]
       ELSE [N |-> <<"ps_sphere.N", R, k0, h, FN, lat, lon>>,
             E |-> <<"ps_sphere.E", R, k0, h, FE, lat, lon>>]
  ELSE [N |-> N0, E |-> E0]

\* E is always written (the south formula serves every h # HEMI_NORTH),
\* N only for HEMI_NORTH and HEMI_SOUTH
geographic_to_ps(a_, e2_, k0, h, FN, FE, lat, lon, N0, E0) ==
  LET f == IF h = HEMI_NORTH THEN HEMI_NORTH ELSE HEMI_SOUTH
  IN  [N |-> IF h = HEMI_NORTH \/ h = HEMI_SOUTH
             THEN IF AtPole(h, lat) THEN Metres(FN)
                  ELSE <<"ps.N", a_, e2_, k0, h, FN, lat, lon>>
             ELSE N0,
       E |-> IF AtPole(f, lat) THEN Metres(FE)
             ELSE <<"ps.E", a_, e2_, k0, f, FE, lat, lon>>]

(* inverse primitives: the values written through lat_rad and lon_rad *)

tm_to_geographic_sphere(R, k0, lon_mer, FN, FE, N_, E_) ==
  [lat |-> <<"tm_sphere.lat", R, k0, FN, FE, N_, E_>>,
   lon |-> <<"tm_sphere.lon", R, k0, lon_mer, FN, FE, N_, E_>>]

tm_to_geographic(a_, e2_, k0, lon_mer, FN, FE, N_, E_) ==
  [lat |-> <<"tm.lat", a_, e2_, k0, FN, FE, N_, E_>>,
   lon |-> <<"tm.lon", a_, e2_, k0, lon_mer, FN, FE, N_, E_>>]

\* both outputs are written only for HEMI_NORTH and HEMI_SOUTH.  There is
\* no test for the origin: with x = y = 0, rho = 0 and c = 0, so the
\* latitude is +-asin(1), and the longitude is atan2(0, -0) = M_PI for
\* HEMI_NORTH and atan2(0, 0) = 0 for HEMI_SOUTH
ps_to_geographic_sphere(R, k0, h, FN, FE, N_, E_, lat0, lon0) ==
  IF h = HEMI_NORTH
  THEN IF E_ = Metres(FE) /\ N_ = Metres(FN)
       THEN [lat |-> Angle(RAD(90)), lon |-> Angle(RAD(180))]
       ELSE [lat |-> <<"ps_sphere.lat", R, k0, h, FN, FE, N_, E_>>,
             lon |-> <<"ps_sphere.lon", h, FN, FE, N_, E_>>]
  ELSE IF h = HEMI_SOUTH
  THEN IF E_ = Metres(FE) /\ N_ = Metres(FN)
       THEN [lat |-> Angle(RAD(-90)), lon |-> Angle(0)]
       ELSE [lat |-> <<"ps_sphere.lat", R, k0, h, FN, FE, N_, E_>>,
             lon |-> <<"ps_sphere.lon", h, FN, FE, N_, E_>>]
  ELSE [lat |-> lat0, lon |-> lon0]

\* x = E - FE and y = N - FN are both zero: the pole, with longitude 0
ps_to_geographic(a_, e2_, k0, h, FN, FE, N_, E_, lat0, lon0) ==
  IF E_ = Metres(FE) /\ N_ = Metres(FN)
  THEN [lat |-> IF h = HEMI_NORTH THEN Angle(RAD(90))
                ELSE IF h = HEMI_SOUTH THEN Angle(RAD(-90))
                ELSE lat0,
        lon |-> Angle(0)]
  ELSE IF h = HEMI_NORTH \/ h = HEMI_SOUTH
       THEN [lat |-> <<"ps.lat", a_, e2_, k0, h, FN, FE, N_, E_>>,
             lon |-> <<"ps.lon", h, FN, FE, N_, E_>>]
       ELSE [lat |-> lat0, lon |-> lon0]

---------------------------------------------------------------------------
(* geographic_to_grid, statement by statement *)

\* variant of NormLon: the fold of (180, 360) onto (-180, 0) is missing
NormLon_NoFold(lon) ==
  IF lon > RAD(180) \/ lon < RAD(-180)
  THEN Fmod(Fmod(lon, RAD(360)) + RAD(360), RAD(360))
  ELSE lon

\* the longitude wrap: only longitudes outside [-180, 180] are touched
NormLon(lon) ==
  IF lon > RAD(180) \/ lon < RAD(-180)
  THEN LET w == Fmod(Fmod(lon, RAD(360)) + RAD(360), RAD(360))
       IN  IF w > RAD(180) THEN w - RAD(360) ELSE w
  ELSE lon

\* the GRID_AUTO request: a polar cap or UTM_ZONE_AUTO
AutoGrid(lat, z) ==
  IF z = GRID_AUTO
  THEN IF lat >= RAD(84) THEN UPS_NORTH
       ELSE IF lat < RAD(-80) THEN UPS_SOUTH
       ELSE UTM_ZONE_AUTO
  ELSE z

\* variants of UtmZone: without the Norway test, with the quotient left
\* zero-based, and with the quotient rounded to the nearest zone
UtmZone_NoNorway(lat, lon, izone) ==
  IF izone < 1 \/ izone > 60
  THEN (lon + RAD(180)) \div RAD(6) + 1
  ELSE IF lat >= RAD(72) /\ lat < RAD(84) /\ lon >= RAD(0)
       THEN IF lon < RAD(9) THEN 31
            ELSE IF lon < RAD(21) THEN 33
            ELSE IF lon < RAD(33) THEN 35
            ELSE IF lon < RAD(42) THEN 37
            ELSE izone
       ELSE izone

UtmZone_ZeroBased(lat, lon, izone) ==
  IF izone < 1 \/ izone > 60
  THEN LET auto == (lon + RAD(180)) \div RAD(6)
       IN  IF lat >= RAD(56) /\ lat < RAD(64) /\ lon >= RAD(3) /\ lon < RAD(12)
           THEN 32
           ELSE auto
  ELSE IF lat >= RAD(72) /\ lat < RAD(84) /\ lon >= RAD(0)
       THEN IF lon < RAD(9) THEN 31
            ELSE IF lon < RAD(21) THEN 33
            ELSE IF lon < RAD(33) THEN 35
            ELSE IF lon < RAD(42) THEN 37
            ELSE izone
       ELSE izone

UtmZone_Rounded(lat, lon, izone) ==
  IF izone < 1 \/ izone > 60
  THEN LET auto == (lon + RAD(180) + RAD(3)) \div RAD(6) + 1
       IN  IF lat >= RAD(56) /\ lat < RAD(64) /\ lon >= RAD(3) /\ lon < RAD(12)
           THEN 32
           ELSE auto
  ELSE IF lat >= RAD(72) /\ lat < RAD(84) /\ lon >= RAD(0)
       THEN IF lon < RAD(9) THEN 31
            ELSE IF lon < RAD(21) THEN 33
            ELSE IF lon < RAD(33) THEN 35
            ELSE IF lon < RAD(42) THEN 37
            ELSE izone
       ELSE izone

\* the UTM zone number: the Norway test is inside the automatic branch,
\* the Svalbard chain is the else-branch of "izone out of 1..60"
\* variant of UtmZone: the Norway test starts at 0 deg instead of 3 deg
UtmZone_WideNorway(lat, lon, izone) ==
  IF izone < 1 \/ izone > 60
  THEN LET auto == (lon + RAD(180)) \div RAD(6) + 1
       IN  IF lat >= RAD(56) /\ lat < RAD(64) /\ lon >= RAD(0) /\ lon < RAD(12)
           THEN 32
           ELSE auto
  ELSE IF lat >= RAD(72) /\ lat < RAD(84) /\ lon >= RAD(0)
       THEN IF lon < RAD(9) THEN 31
            ELSE IF lon < RAD(21) THEN 33
            ELSE IF lon < RAD(33) THEN 35
            ELSE IF lon < RAD(42) THEN 37
            ELSE izone
       ELSE izone

UtmZone(lat, lon, izone) ==
  IF izone < 1 \/ izone > 60
  THEN LET auto == (lon + RAD(180)) \div RAD(6) + 1
       IN  IF lat >= RAD(56) /\ lat < RAD(64) /\ lon >= RAD(3) /\ lon < RAD(12)
           THEN 32
           ELSE auto
  ELSE IF lat >= RAD(72) /\ lat < RAD(84) /\ lon >= RAD(0)
       THEN IF lon < RAD(9) THEN 31
            ELSE IF lon < RAD(21) THEN 33
            ELSE IF lon < RAD(33) THEN 35
            ELSE IF lon < RAD(42) THEN 37
            ELSE izone
       ELSE izone

\* variant of UtmHemi: the equator falls to the south
UtmHemi_EquatorSouth(lat, h) ==
  IF h # HEMI_NORTH /\ h # HEMI_SOUTH
  THEN IF lat > 0 THEN HEMI_NORTH ELSE HEMI_SOUTH
  ELSE h

\* variant of UtmHemi: only HEMI_AUTO is resolved
UtmHemi_OnlyAuto(lat, h) ==
  IF h = HEMI_AUTO
  THEN IF lat >= 0 THEN HEMI_NORTH ELSE HEMI_SOUTH
  ELSE h

UtmHemi(lat, h) ==
  IF h # HEMI_NORTH /\ h # HEMI_SOUTH
  THEN IF lat >= 0 THEN HEMI_NORTH ELSE HEMI_SOUTH
  ELSE h

\* variant of LonMer: the meridian on the zone's western edge
LonMer_WestEdge(izone) == (izone - 1) * RAD(6) - RAD(180)

LonMer(izone) == (izone - 1) * RAD(6) - RAD(180) + RAD(3)

FalseNorthing(h) == IF h = HEMI_NORTH THEN UTM_FN_NH ELSE UTM_FN_SH

\* variant of LatOutOfRange: the poles are rejected
LatOutOfRange_PolesRejected(lat) == lat >= RAD(90) \/ lat <= RAD(-90)

LatOutOfRange(lat) == lat > RAD(90) \/ lat < RAD(-90)

\* variant of GridUPS: the pole is taken from the latitude's sign
GridUPS_HemiFromLatitude(a_, e2_, lat, lon, z, N0, E0) ==
  LET h == IF lat >= 0 THEN HEMI_NORTH ELSE HEMI_SOUTH
      out == IF e2_ # 0
             THEN geographic_to_ps(a_, e2_, UPS_K0, h, UPS_FN, UPS_FE, lat, lon, N0, E0)
             ELSE geographic_to_ps_sphere(a_, UPS_K0, h, UPS_FN, UPS_FE, lat, lon, N0, E0)
  IN  [ret |-> 1, zone |-> z, hemi |-> h, N |-> out.N, E |-> out.E,
       call |-> [prim |-> IF e2_ # 0 THEN "geographic_to_ps"
                          ELSE "geographic_to_ps_sphere",
                 a |-> a_, e2 |-> e2_, k0 |-> UPS_K0, hemi |-> h,
                 FN |-> UPS_FN, FE |-> UPS_FE, lat |-> lat, lon |-> lon]]

\* variant of GridUPS: the primitive is handed HEMI_AUTO
GridUPS_AutoToPrimitive(a_, e2_, lat, lon, z, N0, E0) ==
  LET h == IF z = UPS_NORTH THEN HEMI_NORTH ELSE HEMI_SOUTH
      out == IF e2_ # 0
             THEN geographic_to_ps(a_, e2_, UPS_K0, HEMI_AUTO, UPS_FN, UPS_FE, lat, lon, N0, E0)
             ELSE geographic_to_ps_sphere(a_, UPS_K0, HEMI_AUTO, UPS_FN, UPS_FE, lat, lon, N0, E0)
  IN  [ret |-> 1, zone |-> z, hemi |-> h, N |-> out.N, E |-> out.E,
       call |-> [prim |-> IF e2_ # 0 THEN "geographic_to_ps"
                          ELSE "geographic_to_ps_sphere",
                 a |-> a_, e2 |-> e2_, k0 |-> UPS_K0, hemi |-> HEMI_AUTO,
                 FN |-> UPS_FN, FE |-> UPS_FE, lat |-> lat, lon |-> lon]]

\* the UPS branch
GridUPS(a_, e2_, lat, lon, z, N0, E0) ==
  LET h == IF z = UPS_NORTH THEN HEMI_NORTH ELSE HEMI_SOUTH
      out == IF e2_ # 0
             THEN geographic_to_ps(a_, e2_, UPS_K0, h, UPS_FN, UPS_FE, lat, lon, N0, E0)
             ELSE geographic_to_ps_sphere(a_, UPS_K0, h, UPS_FN, UPS_FE, lat, lon, N0, E0)
  IN  [ret |-> 1, zone |-> z, hemi |-> h, N |-> out.N, E |-> out.E,
       call |-> [prim |-> IF e2_ # 0 THEN "geographic_to_ps"
                          ELSE "geographic_to_ps_sphere",
                 a |-> a_, e2 |-> e2_, k0 |-> UPS_K0, hemi |-> h,
                 FN |-> UPS_FN, FE |-> UPS_FE, lat |-> lat, lon |-> lon]]

\* the UTM branch; the zone requests are the enumerators 0..63, which the
\* cast to unsigned leaves as they are
GridUTM(a_, e2_, lat, lon, z, hemi0) ==
  LET izone == UtmZone(lat, lon, z)
      h == UtmHemi(lat, hemi0)
      lon_mer == LonMer(izone)
      fn == FalseNorthing(h)
      out == IF e2_ # 0
             THEN geographic_to_tm(a_, e2_, UTM_K0, lon_mer, fn, UTM_FE, lat, lon)
             ELSE geographic_to_tm_sphere(a_, UTM_K0, lon_mer, fn, UTM_FE, lat, lon)
  IN  [ret |-> 1, zone |-> izone, hemi |-> h, N |-> out.N, E |-> out.E,
       call |-> [prim |-> IF e2_ # 0 THEN "geographic_to_tm"
                          ELSE "geographic_to_tm_sphere",
                 a |-> a_, e2 |-> e2_, k0 |-> UTM_K0, lon_mer |-> lon_mer,
                 FN |-> fn, FE |-> UTM_FE, lat |-> lat, lon |-> lon]]

\* variant of geographic_to_grid: GRID_AUTO is resolved before the latitude
\* is checked
geographic_to_grid_ResolvesFirst(a_, e2_, lat, lon0, zone0, hemi0, N0, E0) ==
  LET lon == NormLon(lon0)
      z == AutoGrid(lat, zone0)
  IN  IF LatOutOfRange(lat)
      THEN [ret |-> 0, zone |-> z, hemi |-> hemi0, N |-> N0, E |-> E0,
            call |-> NoCall]
      ELSE IF z = UPS_NORTH \/ z = UPS_SOUTH
           THEN GridUPS(a_, e2_, lat, lon, z, N0, E0)
           ELSE GridUTM(a_, e2_, lat, lon, z, hemi0)

\* the whole function: what it returns and what it leaves in *zone, *hemi,
\* *N and *E, given what they held on entry
geographic_to_grid(a_, e2_, lat, lon0, zone0, hemi0, N0, E0) ==
  IF LatOutOfRange(lat)
  THEN [ret |-> 0, zone |-> zone0, hemi |-> hemi0, N |-> N0, E |-> E0,
        call |-> NoCall]
  ELSE LET lon == NormLon(lon0)
           z == AutoGrid(lat, zone0)
       IN  IF z = UPS_NORTH \/ z = UPS_SOUTH
           THEN GridUPS(a_, e2_, lat, lon, z, N0, E0)
           ELSE GridUTM(a_, e2_, lat, lon, z, hemi0)

---------------------------------------------------------------------------
(* grid_to_geographic, statement by statement *)

\* variant of InverseUPS: the hemisphere argument is used as it is given
InverseUPS_HemiAsGiven(a_, e2_, z, h, N_, E_, lat0, lon0) ==
  LET out == IF e2_ # 0
             THEN ps_to_geographic(a_, e2_, UPS_K0, h, UPS_FN, UPS_FE, N_, E_, lat0, lon0)
             ELSE ps_to_geographic_sphere(a_, UPS_K0, h, UPS_FN, UPS_FE, N_, E_, lat0, lon0)
  IN  [ret |-> 1, lat |-> out.lat, lon |-> out.lon,
       call |-> [prim |-> IF e2_ # 0 THEN "ps_to_geographic"
                          ELSE "ps_to_geographic_sphere",
                 a |-> a_, e2 |-> e2_, k0 |-> UPS_K0, hemi |-> h,
                 FN |-> UPS_FN, FE |-> UPS_FE, N |-> N_, E |-> E_]]

\* the UPS branch: hemi is overwritten from the zone
InverseUPS(a_, e2_, z, h, N_, E_, lat0, lon0) ==
  LET hm == IF z = UPS_NORTH THEN HEMI_NORTH ELSE HEMI_SOUTH
      out == IF e2_ # 0
             THEN ps_to_geographic(a_, e2_, UPS_K0, hm, UPS_FN, UPS_FE, N_, E_, lat0, lon0)
             ELSE ps_to_geographic_sphere(a_, UPS_K0, hm, UPS_FN, UPS_FE, N_, E_, lat0, lon0)
  IN  [ret |-> 1, lat |-> out.lat, lon |-> out.lon,
       call |-> [prim |-> IF e2_ # 0 THEN "ps_to_geographic"
                          ELSE "ps_to_geographic_sphere",
                 a |-> a_, e2 |-> e2_, k0 |-> UPS_K0, hemi |-> hm,
                 FN |-> UPS_FN, FE |-> UPS_FE, N |-> N_, E |-> E_]]

\* variant of InverseUTM: the ellipsoidal primitive whatever e2 is
InverseUTM_AlwaysEllipsoidal(a_, e2_, izone, h, N_, E_) ==
  LET lon_mer == LonMer(izone)
      fn == FalseNorthing(h)
      out == tm_to_geographic(a_, e2_, UTM_K0, lon_mer, fn, UTM_FE, N_, E_)
  IN  [ret |-> 1, lat |-> out.lat, lon |-> out.lon,
       call |-> [prim |-> "tm_to_geographic",
                 a |-> a_, e2 |-> e2_, k0 |-> UTM_K0, lon_mer |-> lon_mer,
                 FN |-> fn, FE |-> UTM_FE, N |-> N_, E |-> E_]]

\* the UTM branch once the zone and the hemisphere have passed the tests
InverseUTM(a_, e2_, izone, h, N_, E_) ==
  LET lon_mer == LonMer(izone)
      fn == FalseNorthing(h)
      out == IF e2_ # 0
             THEN tm_to_geographic(a_, e2_, UTM_K0, lon_mer, fn, UTM_FE, N_, E_)
             ELSE tm_to_geographic_sphere(a_, UTM_K0, lon_mer, fn, UTM_FE, N_, E_)
  IN  [ret |-> 1, lat |-> out.lat, lon |-> out.lon,
       call |-> [prim |-> IF e2_ # 0 THEN "tm_to_geographic"
                          ELSE "tm_to_geographic_sphere",
                 a |-> a_, e2 |-> e2_, k0 |-> UTM_K0, lon_mer |-> lon_mer,
                 FN |-> fn, FE |-> UTM_FE, N |-> N_, E |-> E_]]

\* variant of grid_to_geographic: the hemisphere is tested before the zone
grid_to_geographic_HemiFirst(a_, e2_, z, h, N_, E_, lat0, lon0) ==
  IF h # HEMI_NORTH /\ h # HEMI_SOUTH
  THEN [ret |-> 0, lat |-> lat0, lon |-> lon0, call |-> NoCall]
  ELSE IF z = UPS_NORTH \/ z = UPS_SOUTH
  THEN InverseUPS(a_, e2_, z, h, N_, E_, lat0, lon0)
  ELSE IF z < 1 \/ z > 60
  THEN [ret |-> 0, lat |-> lat0, lon |-> lon0, call |-> NoCall]
  ELSE InverseUTM(a_, e2_, z, h, N_, E_)

\* the whole function: what it returns and what it leaves in *lat_rad and
\* *lon_rad, given what they held on entry
grid_to_geographic(a_, e2_, z, h, N_, E_, lat0, lon0) ==
  IF z = UPS_NORTH \/ z = UPS_SOUTH
  THEN InverseUPS(a_, e2_, z, h, N_, E_, lat0, lon0)
  ELSE IF z < 1 \/ z > 60
  THEN [ret |-> 0, lat |-> lat0, lon |-> lon0, call |-> NoCall]
  ELSE IF h # HEMI_NORTH /\ h # HEMI_SOUTH
  THEN [ret |-> 0, lat |-> lat0, lon |-> lon0, call |-> NoCall]
  ELSE InverseUTM(a_, e2_, z, h, N_, E_)

---------------------------------------------------------------------------
(* the inputs of a conversion *)

LatBreaks == {-90, -80, 0, 56, 64, 72, 84, 90}
LonBreaks == {-180, -174, 0, 3, 6, 9, 12, 21, 33, 42, 174, 180}

Lats == {RAD(b) + d : b \in LatBreaks, d \in -Eps..Eps} \cup {RAD(60), RAD(75)}

Lons ==
  {RAD(b) + d : b \in LonBreaks, d \in -Eps..Eps}
    \cup {RAD(7), RAD(45), RAD(-3)}
    \cup {RAD(b) + k * RAD(360) : b \in {-180, 7, 180}, k \in -MaxTurns..MaxTurns}

ExplicitZones == 1..60
\* values past the last enumerator, which a GridZone or Hemisphere variable
\* can be made to hold
OutOfEnumZone == GRID_AUTO + 1
OutOfEnumHemi == HEMI_SOUTH + 1

ZoneRequests ==
  {UTM_ZONE_AUTO, GRID_AUTO, UPS_NORTH, UPS_SOUTH, OutOfEnumZone} \cup ExplicitZones
HemiRequests == {HEMI_AUTO, HEMI_NORTH, HEMI_SOUTH, OutOfEnumHemi}

\* a in metres, e2 in units of 1e-8; e2 = 0 is the sphere
Ellipsoids == {[a |-> 6378137, e2 |-> 669438], [a |-> 6378137, e2 |-> 0]}

\* what a double holds before anything is stored in it
Uninit == <<"uninit">>

---------------------------------------------------------------------------
(* one conversion per point: the caller sets the point, the ellipsoid and  *)
(* the requests, and calls geographic_to_grid on its variables             *)

\* no thread has been started
NoThreads ==
  /\ thread = <<>>
  /\ frame = <<>>

\* no primitive has been called directly
NoPrimitive ==
  /\ direct = NoCall
  /\ legacy = NoCall

\* grid_to_geographic has not been called
NoInverse ==
  /\ lat_inv = Uninit
  /\ lon_inv = Uninit
  /\ ret_inv = -1
  /\ zone_inv = UTM_ZONE_AUTO
  /\ hemi_inv = HEMI_AUTO
  /\ call_inv = NoCall

Init ==
  /\ \E el \in Ellipsoids : a = el.a /\ e2 = el.e2
  /\ lat_rad \in Lats
  /\ lon_rad \in Lons
  /\ zone \in ZoneRequests
  /\ hemi \in HemiRequests
  /\ N = Uninit
  /\ E = Uninit
  /\ ret = -1
  /\ zone_req = zone
  /\ hemi_req = hemi
  /\ call = NoCall
  /\ NoInverse
  /\ NoThreads
  /\ NoPrimitive

\* r = geographic_to_grid(a, e2, lat, lon, &zone, &hemi, &N, &E) with *zone = z
\* and *hemi = h on entry
CallGrid(lat, lon, z, h) ==
  LET r == geographic_to_grid(a, e2, lat, lon, z, h, N, E)
  IN  /\ lat_rad' = lat
      /\ lon_rad' = lon
      /\ zone_req' = z
      /\ hemi_req' = h
      /\ ret' = r.ret
      /\ zone' = r.zone
      /\ hemi' = r.hemi
      /\ N' = r.N
      /\ E' = r.E
      /\ call' = r.call
      /\ UNCHANGED <<a, e2, inv, thr, prm>>

\* the call on the caller's variables as they stand
Convert == CallGrid(lat_rad, lon_rad, zone, hemi)

Next == Convert

Spec == Init /\ [][Next]_vars

---------------------------------------------------------------------------
(* a driver converting one point after another with the same variables, as *)
(* the test programs do: N, E, zone and hemi live across the calls         *)

DriverLats == {RAD(-90) - Eps, RAD(-85), RAD(-45), RAD(60), RAD(75), RAD(90) + Eps}
DriverLons == {RAD(10), RAD(-177)}
DriverZones == {GRID_AUTO, UTM_ZONE_AUTO, UPS_SOUTH, 32}

DriverInit ==
  /\ \E el \in Ellipsoids : a = el.a /\ e2 = el.e2
  /\ lat_rad = 0
  /\ lon_rad = 0
  /\ zone = GRID_AUTO
  /\ hemi = HEMI_AUTO
  /\ N = Uninit
  /\ E = Uninit
  /\ ret = -1
  /\ zone_req = zone
  /\ hemi_req = hemi
  /\ call = NoCall
  /\ NoInverse
  /\ NoThreads
  /\ NoPrimitive

\* zone = z; hemi = h; geographic_to_grid(...)
DriverConvert(lat, lon, z, h) == CallGrid(lat, lon, z, h)

\* zone = z; geographic_to_grid(...): hemi is what the call before left
DriverConvertZone(lat, lon, z) == CallGrid(lat, lon, z, hemi)

\* geographic_to_grid(...) on zone and hemi as the call before left them
DriverConvertNext(lat, lon) == CallGrid(lat, lon, zone, hemi)

DriverNext ==
  \/ \E lat \in DriverLats, lon \in DriverLons, z \in DriverZones, h \in HemiRequests :
       DriverConvert(lat, lon, z, h)
  \/ \E lat \in DriverLats, lon \in DriverLons, z \in DriverZones :
       DriverConvertZone(lat, lon, z)
  \/ \E lat \in DriverLats, lon \in DriverLons :
       DriverConvertNext(lat, lon)

SpecDriver == DriverInit /\ [][DriverNext]_vars

---------------------------------------------------------------------------
(* forward and inverse conversions of one caller: grid_to_geographic is    *)
(* called on the zone, hemisphere, N and E the forward call left, or on    *)
(* grid coordinates the caller assigns to N and E                          *)

InverseLats == {RAD(-90) - Eps, RAD(-90), RAD(-85), RAD(-45), RAD(0), RAD(60),
                RAD(75), RAD(85), RAD(90)}
InverseLons == {RAD(-180), RAD(-177), RAD(4), RAD(10), RAD(180), RAD(180) + Eps}

\* grid coordinates given as literals: the UPS origin, a UTM point and a
\* UPS point
GridPoints ==
  {[N |-> Metres(UPS_FN), E |-> Metres(UPS_FE)],
   [N |-> Metres(3322824), E |-> Metres(210577)],
   [N |-> Metres(2426773), E |-> Metres(1530125)]}

InverseInit ==
  /\ \E el \in Ellipsoids : a = el.a /\ e2 = el.e2
  /\ lat_rad \in InverseLats
  /\ lon_rad \in InverseLons
  /\ zone \in ZoneRequests
  /\ hemi \in HemiRequests
  /\ N = Uninit
  /\ E = Uninit
  /\ ret = -1
  /\ zone_req = zone
  /\ hemi_req = hemi
  /\ call = NoCall
  /\ NoInverse
  /\ NoThreads
  /\ NoPrimitive

\* r = grid_to_geographic(a, e2, z, h, N, E, &lat, &lon) where N and E hold
\* n and e
CallInverse(z, h, n, e) ==
  LET r == grid_to_geographic(a, e2, z, h, n, e, lat_inv, lon_inv)
  IN  /\ zone_inv' = z
      /\ hemi_inv' = h
      /\ ret_inv' = r.ret
      /\ lat_inv' = r.lat
      /\ lon_inv' = r.lon
      /\ call_inv' = r.call
      /\ N' = n
      /\ E' = e
      /\ UNCHANGED <<a, e2, lat_rad, lon_rad, zone, hemi, ret, zone_req, hemi_req, call, thr,
                     prm>>

\* the inverse call on what a successful forward call returned
InvertReturned ==
  /\ ret = 1
  /\ CallInverse(zone, hemi, N, E)

\* N = ...; E = ...; the inverse call on a zone and a hemisphere of the
\* caller's choice, before any forward call
InvertGiven ==
  /\ ret = -1
  /\ \E g \in GridPoints : CallInverse(zone, hemi, g.N, g.E)

InverseNext == Convert \/ InvertReturned \/ InvertGiven

SpecInverse == InverseInit /\ [][InverseNext]_vars

---------------------------------------------------------------------------
(* conversions running at the same time in several threads.  Each thread   *)
(* calls one resolver on variables of its own; the call runs statement by  *)
(* statement, and the statements of different threads interleave.  The     *)
(* parameters a resolver assigns to and its locals are in the frame of the  *)
(* call; the primitives read their arguments and write through the output  *)
(* pointers only.                                                          *)

Threads == 1..NThreads

\* variant of FrameOf: parameters and locals with static storage, one frame
\* for every call
FrameOf_Static(t) == 1

\* automatic storage: every call in progress has a frame of its own
FrameOf(t) == t

\* the calls a thread may make
ForwardCalls ==
  {[op |-> "geographic_to_grid", lat |-> c[1], lon |-> c[2], zone |-> c[3],
    hemi |-> c[4], N |-> Uninit, E |-> Uninit] :
     c \in {<<RAD(60), RAD(4), GRID_AUTO, HEMI_AUTO>>,
            <<RAD(-85), RAD(10), GRID_AUTO, HEMI_NORTH>>,
            <<RAD(75), RAD(10), 32, HEMI_SOUTH>>,
            <<RAD(0), RAD(540), UTM_ZONE_AUTO, HEMI_AUTO>>,
            <<RAD(90) + Eps, RAD(0), UTM_ZONE_AUTO, HEMI_AUTO>>}}

InverseCalls ==
  {[op |-> "grid_to_geographic", lat |-> Uninit, lon |-> Uninit, zone |-> c[1],
    hemi |-> c[2], N |-> Metres(c[3]), E |-> Metres(c[4])] :
     c \in {<<UPS_NORTH, HEMI_AUTO, UPS_FN, UPS_FE>>,
            <<UPS_SOUTH, HEMI_NORTH, 2426773, 1530125>>,
            <<48, HEMI_NORTH, 3322824, 210577>>,
            <<48, HEMI_AUTO, 3322824, 210577>>,
            <<GRID_AUTO, HEMI_NORTH, 3322824, 210577>>}}

NoFrame == [lat |-> 0, lon |-> 0, hemi |-> HEMI_AUTO, izone |-> 0,
            lon_mer |-> 0, fn |-> 0]

ThreadsInit ==
  /\ \E el \in Ellipsoids : a = el.a /\ e2 = el.e2
  /\ lat_rad = 0
  /\ lon_rad = 0
  /\ zone = GRID_AUTO
  /\ hemi = HEMI_AUTO
  /\ N = Uninit
  /\ E = Uninit
  /\ ret = -1
  /\ zone_req = zone
  /\ hemi_req = hemi
  /\ call = NoCall
  /\ NoInverse
  /\ NoPrimitive
  /\ thread \in [Threads ->
       {[op |-> c.op, pc |-> "call", lat |-> c.lat, lon |-> c.lon,
         zone |-> c.zone, hemi |-> c.hemi, N |-> c.N, E |-> c.E, ret |-> -1,
         zone0 |-> c.zone, hemi0 |-> c.hemi, mixed |-> FALSE] :
          c \in ForwardCalls \cup InverseCalls}]
  /\ frame = [c \in Threads |-> NoFrame]

\* thread u is inside its call
Busy(u) == thread[u].pc \notin {"call", "done"}

\* thread t executes one statement: its variables become me, the frame of
\* its call becomes fr
Statement(t, me, fr) ==
  /\ thread' = [thread EXCEPT ![t] =
                  [me EXCEPT !.mixed = @ \/ \E u \in Threads \ {t} : Busy(u)]]
  /\ frame' = [frame EXCEPT ![FrameOf(t)] = fr]
  /\ UNCHANGED <<a, e2, fwd, inv, prm>>

At(t, op, pc) == thread[t].op = op /\ thread[t].pc = pc

(* geographic_to_grid *)

\* the call: lat_rad and lon_rad are passed by value
FwdEnter(t) ==
  /\ At(t, "geographic_to_grid", "call")
  /\ Statement(t, [thread[t] EXCEPT !.pc = "range"],
               [frame[FrameOf(t)] EXCEPT !.lat = thread[t].lat, !.lon = thread[t].lon])

FwdRange(t) ==
  /\ At(t, "geographic_to_grid", "range")
  /\ Statement(t,
               IF LatOutOfRange(frame[FrameOf(t)].lat)
               THEN [thread[t] EXCEPT !.ret = 0, !.pc = "done"]
               ELSE [thread[t] EXCEPT !.pc = "wrap"],
               frame[FrameOf(t)])

FwdWrap(t) ==
  /\ At(t, "geographic_to_grid", "wrap")
  /\ Statement(t, [thread[t] EXCEPT !.pc = "auto"],
               [frame[FrameOf(t)] EXCEPT !.lon = NormLon(@)])

FwdAuto(t) ==
  /\ At(t, "geographic_to_grid", "auto")
  /\ Statement(t,
               [thread[t] EXCEPT !.zone = AutoGrid(frame[FrameOf(t)].lat, @),
                                 !.pc = "branch"],
               frame[FrameOf(t)])

FwdUpsHemi(t) ==
  /\ At(t, "geographic_to_grid", "branch")
  /\ thread[t].zone \in {UPS_NORTH, UPS_SOUTH}
  /\ Statement(t,
               [thread[t] EXCEPT !.hemi = IF thread[t].zone = UPS_NORTH
                                          THEN HEMI_NORTH ELSE HEMI_SOUTH,
                                 !.pc = "ps"],
               frame[FrameOf(t)])

FwdPs(t) ==
  /\ At(t, "geographic_to_grid", "ps")
  /\ LET f == frame[FrameOf(t)]
         me == thread[t]
         out == IF e2 # 0
                THEN geographic_to_ps(a, e2, UPS_K0, me.hemi, UPS_FN, UPS_FE,
                                      f.lat, f.lon, me.N, me.E)
                ELSE geographic_to_ps_sphere(a, UPS_K0, me.hemi, UPS_FN, UPS_FE,
                                             f.lat, f.lon, me.N, me.E)
     IN  Statement(t, [me EXCEPT !.N = out.N, !.E = out.E, !.ret = 1, !.pc = "done"], f)

FwdZone(t) ==
  /\ At(t, "geographic_to_grid", "branch")
  /\ thread[t].zone \notin {UPS_NORTH, UPS_SOUTH}
  /\ LET f == frame[FrameOf(t)]
     IN  Statement(t, [thread[t] EXCEPT !.pc = "setzone"],
                   [f EXCEPT !.izone = UtmZone(f.lat, f.lon, thread[t].zone)])

FwdSetZone(t) ==
  /\ At(t, "geographic_to_grid", "setzone")
  /\ Statement(t, [thread[t] EXCEPT !.zone = frame[FrameOf(t)].izone, !.pc = "hemi"],
               frame[FrameOf(t)])

FwdHemi(t) ==
  /\ At(t, "geographic_to_grid", "hemi")
  /\ Statement(t,
               [thread[t] EXCEPT !.hemi = UtmHemi(frame[FrameOf(t)].lat, @),
                                 !.pc = "lon_mer"],
               frame[FrameOf(t)])

FwdLonMer(t) ==
  /\ At(t, "geographic_to_grid", "lon_mer")
  /\ LET f == frame[FrameOf(t)]
     IN  Statement(t, [thread[t] EXCEPT !.pc = "fn"],
                   [f EXCEPT !.lon_mer = LonMer(f.izone)])

FwdFn(t) ==
  /\ At(t, "geographic_to_grid", "fn")
  /\ Statement(t, [thread[t] EXCEPT !.pc = "tm"],
               [frame[FrameOf(t)] EXCEPT !.fn = FalseNorthing(thread[t].hemi)])

FwdTm(t) ==
  /\ At(t, "geographic_to_grid", "tm")
  /\ LET f == frame[FrameOf(t)]
         out == IF e2 # 0
                THEN geographic_to_tm(a, e2, UTM_K0, f.lon_mer, f.fn, UTM_FE, f.lat, f.lon)
                ELSE geographic_to_tm_sphere(a, UTM_K0, f.lon_mer, f.fn, UTM_FE, f.lat, f.lon)
     IN  Statement(t, [thread[t] EXCEPT !.N = out.N, !.E = out.E, !.ret = 1,
                                        !.pc = "done"], f)

(* grid_to_geographic *)

\* the call: hemi is passed by value, and the UPS branch assigns to it
InvEnter(t) ==
  /\ At(t, "grid_to_geographic", "call")
  /\ Statement(t, [thread[t] EXCEPT !.pc = "branch"],
               [frame[FrameOf(t)] EXCEPT !.hemi = thread[t].hemi])

InvUpsHemi(t) ==
  /\ At(t, "grid_to_geographic", "branch")
  /\ thread[t].zone \in {UPS_NORTH, UPS_SOUTH}
  /\ Statement(t, [thread[t] EXCEPT !.pc = "ps"],
               [frame[FrameOf(t)] EXCEPT !.hemi = IF thread[t].zone = UPS_NORTH
                                                  THEN HEMI_NORTH ELSE HEMI_SOUTH])

InvPs(t) ==
  /\ At(t, "grid_to_geographic", "ps")
  /\ LET f == frame[FrameOf(t)]
         me == thread[t]
         out == IF e2 # 0
                THEN ps_to_geographic(a, e2, UPS_K0, f.hemi, UPS_FN, UPS_FE,
                                      me.N, me.E, me.lat, me.lon)
                ELSE ps_to_geographic_sphere(a, UPS_K0, f.hemi, UPS_FN, UPS_FE,
                                             me.N, me.E, me.lat, me.lon)
     IN  Statement(t, [me EXCEPT !.lat = out.lat, !.lon = out.lon, !.ret = 1,
                                 !.pc = "done"], f)

InvZone(t) ==
  /\ At(t, "grid_to_geographic", "branch")
  /\ thread[t].zone \notin {UPS_NORTH, UPS_SOUTH}
  /\ Statement(t,
               IF thread[t].zone < 1 \/ thread[t].zone > 60
               THEN [thread[t] EXCEPT !.ret = 0, !.pc = "done"]
               ELSE [thread[t] EXCEPT !.pc = "hemi"],
               [frame[FrameOf(t)] EXCEPT !.izone = thread[t].zone])

InvHemi(t) ==
  /\ At(t, "grid_to_geographic", "hemi")
  /\ Statement(t,
               IF frame[FrameOf(t)].hemi # HEMI_NORTH /\ frame[FrameOf(t)].hemi # HEMI_SOUTH
               THEN [thread[t] EXCEPT !.ret = 0, !.pc = "done"]
               ELSE [thread[t] EXCEPT !.pc = "lon_mer"],
               frame[FrameOf(t)])

InvLonMer(t) ==
  /\ At(t, "grid_to_geographic", "lon_mer")
  /\ LET f == frame[FrameOf(t)]
     IN  Statement(t, [thread[t] EXCEPT !.pc = "fn"],
                   [f EXCEPT !.lon_mer = LonMer(f.izone)])

InvFn(t) ==
  /\ At(t, "grid_to_geographic", "fn")
  /\ LET f == frame[FrameOf(t)]
     IN  Statement(t, [thread[t] EXCEPT !.pc = "tm"],
                   [f EXCEPT !.fn = FalseNorthing(f.hemi)])

InvTm(t) ==
  /\ At(t, "grid_to_geographic", "tm")
  /\ LET f == frame[FrameOf(t)]
         me == thread[t]
         out == IF e2 # 0
                THEN tm_to_geographic(a, e2, UTM_K0, f.lon_mer, f.fn, UTM_FE, me.N, me.E)
                ELSE tm_to_geographic_sphere(a, UTM_K0, f.lon_mer, f.fn, UTM_FE, me.N, me.E)
     IN  Statement(t, [me EXCEPT !.lat = out.lat, !.lon = out.lon, !.ret = 1,
                                 !.pc = "done"], f)

ThreadsNext ==
  \E t \in Threads :
    \/ FwdEnter(t) \/ FwdRange(t) \/ FwdWrap(t) \/ FwdAuto(t)
    \/ FwdUpsHemi(t) \/ FwdPs(t)
    \/ FwdZone(t) \/ FwdSetZone(t) \/ FwdHemi(t) \/ FwdLonMer(t) \/ FwdFn(t) \/ FwdTm(t)
    \/ InvEnter(t) \/ InvUpsHemi(t) \/ InvPs(t)
    \/ InvZone(t) \/ InvHemi(t) \/ InvLonMer(t) \/ InvFn(t) \/ InvTm(t)

SpecThreads == ThreadsInit /\ [][ThreadsNext]_vars

---------------------------------------------------------------------------
(* vocabulary of the properties, in degrees and millidegrees as the claims *)
(* state them                                                              *)

Called == ret # -1
Succeeded == ret = 1

\* a transverse Mercator primitive was called: the result is a UTM result
UsedTM == call.prim \in {"geographic_to_tm", "geographic_to_tm_sphere"}
UsedPS == call.prim \in {"geographic_to_ps", "geographic_to_ps_sphere"}

\* the zone was resolved automatically
AutoUTM ==
  \/ zone_req = UTM_ZONE_AUTO
  \/ zone_req = GRID_AUTO /\ lat_rad >= -80000 /\ lat_rad < 84000

\* the exception areas, on the longitude handed to the primitive
InNorway(lat, lon) == lat >= 56000 /\ lat < 64000 /\ lon >= 3000 /\ lon < 12000
InSvalbard(lat, lon) == lat >= 72000 /\ lat < 84000 /\ lon >= 0 /\ lon < 42000

\* floor((lon + 180 deg) / 6 deg) + 1
SixDegreeZone(lon) == (lon + 180000) \div 6000 + 1

---------------------------------------------------------------------------
\* C1: geographic_to_grid returns 0 exactly when the latitude is outside
\* [-90 deg, +90 deg], and 1 for every latitude inside it, whatever the
\* longitude, the requests and the ellipsoid are.
C1_FailsExactlyOutOfRange ==
  Called => /\ ret \in {0, 1}
            /\ ret = 0 <=> (lat_rad < -90000 \/ lat_rad > 90000)

\* the pole itself is converted
C1_Witness == ret = 1 /\ lat_rad = 90000 /\ zone_req = UTM_ZONE_AUTO /\ lon_rad > 180000

\* C2: a call that fails leaves zone, hemi, N and E holding what they held
\* on entry, also when that is what an earlier successful call left.
C2_FailureWritesNothing ==
  [][ret' = 0 => /\ zone' = zone_req'
                 /\ hemi' = hemi_req'
                 /\ N' = N
                 /\ E' = E]_vars

\* a failed call after a successful one: N and E still hold its results
C2_Witness == ret = 0 /\ N # Uninit /\ E # Uninit /\ zone_req = GRID_AUTO

\* C3: with the request GRID_AUTO the zone returned is UPS_NORTH for every
\* latitude >= 84 deg, UPS_SOUTH for every latitude < -80 deg, and a UTM zone
\* (1..60) for every latitude in between.
C3_GridAutoBands ==
  (Succeeded /\ zone_req = GRID_AUTO) =>
    /\ lat_rad >= 84000 => zone = UPS_NORTH
    /\ lat_rad < -80000 => zone = UPS_SOUTH
    /\ (lat_rad >= -80000 /\ lat_rad < 84000) => zone \in 1..60

\* C4: a UTM zone resolved automatically is a zone number in 1..60, for
\* every longitude, +180 deg and -180 deg and wrapped longitudes included.
C4_AutoZoneInRange ==
  (Succeeded /\ AutoUTM) => zone \in 1..60

\* C5: an explicit zone request is returned as it was requested and the
\* projection uses that zone's central meridian (or that pole), for every
\* latitude and longitude.
C5_ExplicitZoneKept ==
  (Succeeded /\ zone_req \in (1..60) \cup {UPS_NORTH, UPS_SOUTH}) =>
    /\ zone = zone_req
    /\ zone_req \in 1..60 =>
         UsedTM /\ call.lon_mer = (zone_req - 1) * 6000 - 180000 + 3000
    /\ zone_req = UPS_NORTH => UsedPS /\ call.hemi = HEMI_NORTH
    /\ zone_req = UPS_SOUTH => UsedPS /\ call.hemi = HEMI_SOUTH

\* C6: Svalbard: under automatic zone selection a point with
\* 72 deg <= lat < 84 deg and 0 deg <= lon < 42 deg gets zone 31, 33, 35 or
\* 37 (boundaries 9, 21, 33 deg), never 32, 34 or 36.
C6_SvalbardAuto ==
  (Succeeded /\ AutoUTM /\ InSvalbard(lat_rad, call.lon)) =>
    zone = IF call.lon < 9000 THEN 31
           ELSE IF call.lon < 21000 THEN 33
           ELSE IF call.lon < 33000 THEN 35
           ELSE 37

StrictlyInside(lon) ==
  /\ lon > -180000 /\ lon < 180000
  /\ (lon + 180000) % 6000 # 0

\* what the call with the explicit zone n returns for the point and the
\* hemisphere request of the call just made
ExplicitCall(n) ==
  geographic_to_grid(a, e2, lat_rad, lon_rad, n, hemi_req, Uninit, Uninit)

SameAsExplicit(n) ==
  LET x == ExplicitCall(n)
  IN  /\ x.ret = 1
      /\ x.zone = zone
      /\ x.hemi = hemi
      /\ x.call = call
      /\ x.N = N
      /\ x.E = E

\* C9 as stated: for a point strictly inside zone n's six-degree span, the
\* call with Auto and the call with the explicit zone n resolve the same
\* zone, central meridian and false origin and give the same (N, E).
C9_AutoMatchesExplicit ==
  (Succeeded /\ AutoUTM /\ StrictlyInside(call.lon)) =>
    SameAsExplicit(SixDegreeZone(call.lon))

\* C9 amended: the same, for points outside the Norway and Svalbard areas.
C9_AutoMatchesExplicitOutsideExceptions ==
  (Succeeded /\ AutoUTM /\ StrictlyInside(call.lon)
             /\ ~InNorway(lat_rad, call.lon)
             /\ ~InSvalbard(lat_rad, call.lon)) =>
    SameAsExplicit(SixDegreeZone(call.lon))

\* 45 deg E at 75 deg N: north of Norway, east of Svalbard, zone 38
C9_Witness ==
  /\ Succeeded /\ zone_req = GRID_AUTO /\ hemi_req = HEMI_AUTO
  /\ lat_rad = 75000 /\ lon_rad = 45000
  /\ zone = 38 /\ SameAsExplicit(38)

\* C10: for a UTM result an explicitly requested hemisphere is kept whatever
\* the sign of the latitude; only HEMI_AUTO is resolved, to HEMI_NORTH for
\* lat >= 0 and HEMI_SOUTH for lat < 0.
C10_Hemisphere ==
  (Succeeded /\ UsedTM) =>
    /\ hemi_req \in {HEMI_NORTH, HEMI_SOUTH} => hemi = hemi_req
    /\ hemi_req = HEMI_AUTO =>
         hemi = IF lat_rad >= 0 THEN HEMI_NORTH ELSE HEMI_SOUTH

\* the equator is North
C10_Witness ==
  /\ Succeeded /\ UsedTM /\ hemi_req = HEMI_AUTO
  /\ lat_rad = 0 /\ hemi = HEMI_NORTH /\ call.FN = 0

\* UPS is selected: by request, or by GRID_AUTO in a polar cap
SelectsUPS ==
  \/ zone_req \in {UPS_NORTH, UPS_SOUTH}
  \/ zone_req = GRID_AUTO /\ (lat_rad >= 84000 \/ lat_rad < -80000)

\* C11: whenever UPS is selected, by Auto or by request, the hemisphere
\* returned is the pole of the zone whatever hemisphere was passed in, and
\* the polar stereographic primitive is called for that pole with
\* k0 = 0.994 and false northing = false easting = 2,000,000 m.
C11_UPSForcesPole ==
  (Succeeded /\ SelectsUPS) =>
    /\ zone \in {UPS_NORTH, UPS_SOUTH}
    /\ hemi = IF zone = UPS_NORTH THEN HEMI_NORTH ELSE HEMI_SOUTH
    /\ UsedPS
    /\ call.hemi = hemi
    /\ call.k0 = 9940
    /\ call.FN = 2000000
    /\ call.FE = 2000000

\* UPS_NORTH requested for a southern point with HEMI_SOUTH passed in
C11_Witness ==
  /\ Succeeded /\ zone_req = UPS_NORTH /\ hemi_req = HEMI_SOUTH
  /\ lat_rad = -80000
  /\ hemi = HEMI_NORTH /\ call.hemi = HEMI_NORTH

\* C12: every UTM result comes from the TM primitive called with central
\* meridian (zone - 1) * 6 deg - 180 deg + 3 deg of the returned zone,
\* k0 = 0.9996, false easting 500,000 m and false northing 0 m for the
\* returned hemisphere North, 10,000,000 m for South.
C12_UTMParameters ==
  (Succeeded /\ UsedTM) =>
    /\ call.lon_mer = (zone - 1) * 6000 - 180000 + 3000
    /\ call.k0 = 9996
    /\ call.FE = 500000
    /\ hemi \in {HEMI_NORTH, HEMI_SOUTH}
    /\ call.FN = IF hemi = HEMI_NORTH THEN 0 ELSE 10000000

\* a northern point forced into the southern grid of zone 38
C12_Witness ==
  /\ Succeeded /\ zone_req = 38 /\ hemi_req = HEMI_SOUTH
  /\ lat_rad = 60000 /\ lon_rad = 45000
  /\ call.lon_mer = 45000 /\ call.FN = 10000000

\* the longitude used for the zone and handed to the primitive
UsedLon == call.lon

\* C13 as stated: the longitude used is in (-180 deg, +180 deg], never
\* exactly -180 deg.
C13_LonHalfOpen ==
  Succeeded => (UsedLon > -180000 /\ UsedLon <= 180000)

\* C13 amended: the longitude used is in [-180 deg, +180 deg] and differs
\* from the input by whole turns; an input inside that interval, exactly
\* -180 deg included, is used as it is, an input outside it is wrapped into
\* (-180 deg, +180 deg].
C13_LonClosed ==
  Succeeded =>
    /\ UsedLon >= -180000 /\ UsedLon <= 180000
    /\ (UsedLon - lon_rad) % 360000 = 0
    /\ (lon_rad >= -180000 /\ lon_rad <= 180000) => UsedLon = lon_rad
    /\ (lon_rad < -180000 \/ lon_rad > 180000) => UsedLon > -180000

\* one millidegree east of the antimeridian comes back as -179.999 deg
C13_Witness ==
  /\ Succeeded /\ lon_rad = 180001 /\ UsedLon = -179999
  /\ zone_req = UTM_ZONE_AUTO /\ zone = 1

\* C14: after a successful call zone is a UTM number or UPS_NORTH or
\* UPS_SOUTH and hemi is HEMI_NORTH or HEMI_SOUTH, whatever sentinel or
\* out-of-enum value was passed in.
C14_OutputsConcrete ==
  Succeeded =>
    /\ zone \in (1..60) \cup {UPS_NORTH, UPS_SOUTH}
    /\ zone # UTM_ZONE_AUTO /\ zone # GRID_AUTO
    /\ hemi \in {HEMI_NORTH, HEMI_SOUTH}

\* both requests out of the enumerations
C14_Witness ==
  /\ Succeeded /\ zone_req = 64 /\ hemi_req = 3
  /\ lat_rad = -1 /\ lon_rad = 7000
  /\ zone = 32 /\ hemi = HEMI_SOUTH

---------------------------------------------------------------------------
(* vocabulary of the properties of grid_to_geographic *)

InverseCalled == ret_inv # -1
InverseSucceeded == ret_inv = 1
InverseUsedTM == call_inv.prim \in {"tm_to_geographic", "tm_to_geographic_sphere"}
InverseUsedPS == call_inv.prim \in {"ps_to_geographic", "ps_to_geographic_sphere"}

\* the zone argument is neither a UTM number nor a UPS marker
ZoneInvalid == zone_inv \notin (1..60) \cup {UPS_NORTH, UPS_SOUTH}

\* C15 as stated: grid_to_geographic returns 0 if the zone is out of
\* [1, 60] and not a UPS marker, or if the hemisphere is HEMI_AUTO, and
\* returns success otherwise.
C15_FailsOnZoneOrHemi ==
  InverseCalled =>
    (ret_inv = 0 <=> (ZoneInvalid \/ hemi_inv = HEMI_AUTO))

\* C15 amended: grid_to_geographic returns 0 if the zone is out of [1, 60]
\* and not a UPS marker, or if the zone is a UTM number and the hemisphere
\* is neither HEMI_NORTH nor HEMI_SOUTH; it returns 1 otherwise, so for a
\* UPS zone with every hemisphere.
C15_FailsOnZoneOrUTMHemi ==
  InverseCalled =>
    /\ ret_inv \in {0, 1}
    /\ ret_inv = 0 <=>
         \/ ZoneInvalid
         \/ zone_inv \in 1..60 /\ hemi_inv \notin {HEMI_NORTH, HEMI_SOUTH}

\* UTM zone 48 with HEMI_AUTO is refused
C15_Witness ==
  /\ ret_inv = 0 /\ zone_inv = 48 /\ hemi_inv = HEMI_AUTO
  /\ N = Metres(3322824) /\ E = Metres(210577)

\* C16: grid_to_geographic with zone UPS_NORTH or UPS_SOUTH succeeds for
\* every hemisphere argument, HEMI_AUTO included, and inverts with the
\* hemisphere of the zone: the hemisphere argument changes nothing.
C16_UPSInverseIgnoresHemi ==
  (InverseCalled /\ zone_inv \in {UPS_NORTH, UPS_SOUTH}) =>
    /\ InverseSucceeded
    /\ InverseUsedPS
    /\ call_inv.hemi = IF zone_inv = UPS_NORTH THEN HEMI_NORTH ELSE HEMI_SOUTH
    /\ \A h \in HemiRequests :
         LET r == grid_to_geographic(a, e2, zone_inv, h, call_inv.N, call_inv.E,
                                     Uninit, Uninit)
         IN  r.ret = 1 /\ r.lat = lat_inv /\ r.lon = lon_inv

\* UPS_NORTH with HEMI_AUTO, as the test program calls it
C16_Witness ==
  /\ InverseSucceeded /\ zone_inv = UPS_NORTH /\ hemi_inv = HEMI_AUTO
  /\ N = Metres(2426773) /\ E = Metres(1530125)
  /\ call_inv.hemi = HEMI_NORTH

\* grid_to_geographic was called on what the successful forward call left
InvertedReturned ==
  /\ Succeeded /\ InverseCalled
  /\ zone_inv = zone /\ hemi_inv = hemi
  /\ InverseSucceeded => (call_inv.N = N /\ call_inv.E = E)

\* C17: for every successful forward call, grid_to_geographic on the zone
\* and hemisphere it returned succeeds and selects the same projection
\* family, scale factor, central meridian or pole, false northing and false
\* easting as the forward call.
C17_InverseIsDual ==
  InvertedReturned =>
    /\ InverseSucceeded
    /\ UsedTM <=> InverseUsedTM
    /\ UsedPS <=> InverseUsedPS
    /\ call_inv.k0 = call.k0
    /\ call_inv.FN = call.FN
    /\ call_inv.FE = call.FE
    /\ (UsedTM /\ InverseUsedTM) => call_inv.lon_mer = call.lon_mer
    /\ (UsedPS /\ InverseUsedPS) => call_inv.hemi = call.hemi

\* the forward call was made with the request UTM_ZONE_AUTO
UtmZoneAutoCall == Succeeded /\ zone_req = UTM_ZONE_AUTO

\* the zone UTM_ZONE_AUTO resolves for the same longitude at latitude lat
ZoneAtLatitude(lat) ==
  geographic_to_grid(a, e2, lat, lon_rad, UTM_ZONE_AUTO, hemi_req, Uninit, Uninit).zone

\* C18: with the request UTM_ZONE_AUTO the zone is a UTM zone 1..60 chosen
\* from the longitude alone: every latitude in [-90 deg, +90 deg] gets the
\* same zone for the same longitude, and UPS is never selected, the polar
\* latitudes included.
C18_UtmAutoIgnoresLatitude ==
  UtmZoneAutoCall =>
    /\ zone \in 1..60
    /\ UsedTM
    /\ \A lat \in Lats :
         (lat >= -90000 /\ lat <= 90000) => ZoneAtLatitude(lat) = zone

\* C19: both resolvers choose the primitive from e2 alone: the spherical
\* one, with a as the radius, when e2 = 0 and the ellipsoidal one when
\* e2 # 0; a successful conversion is the call of that one primitive.
C19_PrimitiveFromE2 ==
  /\ Succeeded =>
       /\ call.prim \in IF e2 = 0
                        THEN {"geographic_to_tm_sphere", "geographic_to_ps_sphere"}
                        ELSE {"geographic_to_tm", "geographic_to_ps"}
       /\ call.a = a /\ call.e2 = e2
  /\ InverseSucceeded =>
       /\ call_inv.prim \in IF e2 = 0
                            THEN {"tm_to_geographic_sphere", "ps_to_geographic_sphere"}
                            ELSE {"tm_to_geographic", "ps_to_geographic"}
       /\ call_inv.a = a /\ call_inv.e2 = e2
       /\ lat_inv[1] \in IF e2 = 0 THEN {"tm_sphere.lat", "ps_sphere.lat", "mdeg"}
                         ELSE {"tm.lat", "ps.lat", "mdeg"}

\* a sphere: both directions went through the spherical TM pair
C19_Witness ==
  /\ e2 = 0 /\ Succeeded /\ InverseSucceeded
  /\ call.prim = "geographic_to_tm_sphere"
  /\ call_inv.prim = "tm_to_geographic_sphere"
  /\ call_inv.N = N /\ call_inv.E = E

---------------------------------------------------------------------------
(* vocabulary of the properties of concurrent conversions *)

\* what thread t's call returns and writes when it runs alone
Alone(t) ==
  LET me == thread[t]
  IN  IF me.op = "geographic_to_grid"
      THEN LET r == geographic_to_grid(a, e2, me.lat, me.lon, me.zone0, me.hemi0,
                                       Uninit, Uninit)
           IN  [ret |-> r.ret, zone |-> r.zone, hemi |-> r.hemi, lat |-> me.lat,
                lon |-> me.lon, N |-> r.N, E |-> r.E]
      ELSE LET r == grid_to_geographic(a, e2, me.zone0, me.hemi0, me.N, me.E,
                                       Uninit, Uninit)
           IN  [ret |-> r.ret, zone |-> me.zone0, hemi |-> me.hemi0, lat |-> r.lat,
                lon |-> r.lon, N |-> me.N, E |-> me.E]

\* what thread t's variables hold
Result(t) ==
  LET me == thread[t]
  IN  [ret |-> me.ret, zone |-> me.zone, hemi |-> me.hemi, lat |-> me.lat,
       lon |-> me.lon, N |-> me.N, E |-> me.E]

\* C20: conversions running concurrently in different threads, each on its
\* own variables, share no state: whatever the interleaving, a call that
\* has returned has given its thread what the same call gives alone.
C20_Reentrant ==
  \A t \in DOMAIN thread :
    thread[t].pc = "done" => Result(t) = Alone(t)

\* a forward and an inverse conversion that overlapped and both succeeded
C20_Witness ==
  /\ DOMAIN thread = Threads
  /\ \E t, u \in Threads :
       /\ t # u
       /\ thread[t].pc = "done" /\ thread[u].pc = "done"
       /\ thread[t].mixed /\ thread[u].mixed
       /\ thread[t].op = "geographic_to_grid" /\ thread[t].ret = 1
       /\ thread[t].zone = 32
       /\ thread[u].op = "grid_to_geographic" /\ thread[u].ret = 1

---------------------------------------------------------------------------
(* properties of repeated and related forward calls *)

\* the two calls used the same projection family, central meridian or pole
\* and false origin
SameProjection(c, d) ==
  /\ c.prim = d.prim
  /\ c.k0 = d.k0
  /\ c.FN = d.FN
  /\ c.FE = d.FE
  /\ c.prim \in {"geographic_to_tm", "geographic_to_tm_sphere"} => c.lon_mer = d.lon_mer
  /\ c.prim \in {"geographic_to_ps", "geographic_to_ps_sphere"} => c.hemi = d.hemi

\* C26: zone resolution is idempotent: a successful call followed by a call
\* for the same point with the returned zone and hemisphere as the request
\* returns the same zone and hemisphere and uses the same projection
\* family, central meridian and false origin.
C26_Idempotent ==
  [][(ret = 1 /\ lat_rad' = lat_rad /\ lon_rad' = lon_rad
        /\ zone_req' = zone /\ hemi_req' = hemi)
       => /\ ret' = 1
          /\ zone' = zone
          /\ hemi' = hemi
          /\ SameProjection(call, call')]_vars

\* what the call just made returns for the longitude moved by k whole turns
TurnedCall(k) ==
  geographic_to_grid(a, e2, lat_rad, lon_rad + k * 360000, zone_req, hemi_req,
                     Uninit, Uninit)

\* C27: geographic_to_grid is periodic in longitude: a longitude that
\* differs by whole turns of 360 deg resolves, for the same latitude and
\* requests, to the same zone, the same hemisphere and the same offset of
\* the normalised longitude from the central meridian.
C27_PeriodicInLongitude ==
  Succeeded =>
    \A k \in -MaxTurns..MaxTurns :
      LET r == TurnedCall(k)
      IN  /\ r.ret = 1
          /\ r.zone = zone
          /\ r.hemi = hemi
          /\ r.call.prim = call.prim
          /\ UsedTM => r.call.lon - r.call.lon_mer = call.lon - call.lon_mer

\* the normalised longitude is within d millidegrees of the central meridian
WithinOfMeridian(d) ==
  call.lon - call.lon_mer <= d /\ call.lon_mer - call.lon <= d

\* C28: under automatic UTM zone selection the normalised longitude handed
\* to the TM primitive is within 3 deg of the selected zone's central
\* meridian outside the Norway and Svalbard exception areas, and within
\* 6 deg inside them.
C28_NearCentralMeridian ==
  (Succeeded /\ AutoUTM) =>
    /\ UsedTM
    /\ IF InNorway(lat_rad, call.lon) \/ InSvalbard(lat_rad, call.lon)
       THEN WithinOfMeridian(6000)
       ELSE WithinOfMeridian(3000)

\* the western edge of the Norway area: 6 deg west of zone 32's meridian
C28_Witness ==
  /\ Succeeded /\ zone_req = GRID_AUTO
  /\ lat_rad = 60000 /\ lon_rad = 3000
  /\ zone = 32 /\ call.lon - call.lon_mer = -6000

\* C29: on every successful call the primitive works for a concrete
\* hemisphere (HEMI_NORTH or HEMI_SOUTH), so zone, hemisphere, northing and
\* easting are all written, whereas the PS primitives called directly with
\* HEMI_AUTO write no northing.
C29_AllOutputsWritten ==
  Succeeded =>
    /\ zone \in (1..60) \cup {UPS_NORTH, UPS_SOUTH}
    /\ hemi \in {HEMI_NORTH, HEMI_SOUTH}
    /\ UsedPS => call.hemi = hemi
    /\ UsedTM => call.FN = FalseNorthing(hemi)
    /\ N # Uninit
    /\ E # Uninit
    /\ geographic_to_ps(a, e2, UPS_K0, HEMI_AUTO, UPS_FN, UPS_FE, lat_rad, call.lon,
                        Uninit, Uninit).N = Uninit
    /\ geographic_to_ps_sphere(a, UPS_K0, HEMI_AUTO, UPS_FN, UPS_FE, lat_rad, call.lon,
                               Uninit, Uninit).N = Uninit

\* UPS_SOUTH requested with the hemisphere left on HEMI_AUTO
C29_Witness ==
  /\ Succeeded /\ zone_req = UPS_SOUTH /\ hemi_req = HEMI_AUTO
  /\ UsedPS /\ call.hemi = HEMI_SOUTH
  /\ N # Uninit /\ E # Uninit
  /\ lat_rad = -90000 /\ N = Metres(UPS_FN)

---------------------------------------------------------------------------
(* geographic_to_grid of the legacy file: the zone, the hemisphere and the *)
(* primitive call it resolves                                              *)

\* the zone of the UTM branch: the Norway test and the Svalbard chain are
\* both inside the automatic branch
legacy_UtmZone(lat, lon, izone) ==
  IF izone < 1 \/ izone > 60
  THEN LET auto == (lon + RAD(180)) \div RAD(6) + 1
       IN  IF lat >= RAD(56) /\ lat < RAD(64) /\ lon >= RAD(3) /\ lon < RAD(12)
           THEN 32
           ELSE IF lat >= RAD(72) /\ lat < RAD(84) /\ lon >= RAD(0)
           THEN IF lon < RAD(9) THEN 31
                ELSE IF lon < RAD(21) THEN 33
                ELSE IF lon < RAD(33) THEN 35
                ELSE IF lon < RAD(42) THEN 37
                ELSE auto
           ELSE auto
  ELSE izone

legacy_geographic_to_grid(e2_, lat, lon0, zone0, hemi0) ==
  IF lat > RAD(90) \/ lat < RAD(-90)
  THEN [ret |-> 0, zone |-> zone0, hemi |-> hemi0, call |-> NoCall]
  ELSE LET lon == IF lon0 > RAD(180) \/ lon0 < RAD(-180)
                  THEN LET w == Fmod(Fmod(lon0, RAD(360)) + RAD(360), RAD(360))
                       IN  IF w > RAD(180) THEN w - RAD(360) ELSE w
                  ELSE lon0
           z == IF zone0 = GRID_AUTO
                THEN IF lat >= RAD(84) THEN UPS_NORTH
                     ELSE IF lat < RAD(-80) THEN UPS_SOUTH
                     ELSE UTM_ZONE_AUTO
                ELSE zone0
       IN  IF z = UPS_NORTH \/ z = UPS_SOUTH
           THEN LET h == IF z = UPS_NORTH THEN HEMI_NORTH ELSE HEMI_SOUTH
                IN  [ret |-> 1, zone |-> z, hemi |-> h,
                     call |-> [prim |-> IF e2_ # 0 THEN "geographic_to_ps"
                                        ELSE "geographic_to_ps_sphere",
                               k0 |-> UPS_K0, hemi |-> h, FN |-> UPS_FN,
                               FE |-> UPS_FE, lat |-> lat, lon |-> lon]]
           ELSE LET izone == legacy_UtmZone(lat, lon, z)
                    h == IF hemi0 # HEMI_NORTH /\ hemi0 # HEMI_SOUTH
                         THEN IF lat >= 0 THEN HEMI_NORTH ELSE HEMI_SOUTH
                         ELSE hemi0
                    lon_mer == (izone - 1) * RAD(6) - RAD(180) + RAD(3)
                    fn == IF h = HEMI_NORTH THEN UTM_FN_NH ELSE UTM_FN_SH
                IN  [ret |-> 1, zone |-> izone, hemi |-> h,
                     call |-> [prim |-> IF e2_ # 0 THEN "geographic_to_tm"
                                        ELSE "geographic_to_tm_sphere",
                               k0 |-> UTM_K0, lon_mer |-> lon_mer, FN |-> fn,
                               FE |-> UTM_FE, lat |-> lat, lon |-> lon]]

\* what the legacy version resolves for the call just made
LegacyCall == legacy_geographic_to_grid(e2, lat_rad, lon_rad, zone_req, hemi_req)

\* C30: the legacy and the current geographic_to_grid resolve identically:
\* for every latitude, longitude, zone request and hemisphere request they
\* return the same success flag, the same zone and hemisphere, and select
\* the same projection family, central meridian and false northing.
C30_LegacyResolvesTheSame ==
  Called =>
    /\ LegacyCall.ret = ret
    /\ LegacyCall.zone = zone
    /\ LegacyCall.hemi = hemi
    /\ Succeeded => SameProjection(LegacyCall.call, call)

---------------------------------------------------------------------------
(* properties of the primitives *)

\* the inverse PS primitive was given exactly its false origin
InverseAtOrigin ==
  /\ InverseSucceeded /\ InverseUsedPS
  /\ call_inv.N = Metres(call_inv.FN)
  /\ call_inv.E = Metres(call_inv.FE)

\* C24: ps_to_geographic and ps_to_geographic_sphere, given exactly
\* N = FN and E = FE, return the pole of the hemisphere (+90 deg for
\* HEMI_NORTH, -90 deg for HEMI_SOUTH) with longitude 0.
C24_OriginIsPoleLonZero ==
  InverseAtOrigin =>
    /\ lat_inv = IF call_inv.hemi = HEMI_NORTH THEN Angle(90000) ELSE Angle(-90000)
    /\ lon_inv = Angle(0)

---------------------------------------------------------------------------
(* the forward transverse Mercator primitives called directly, with a      *)
(* scale factor, a central meridian and a false origin of the caller's     *)
(* choice, as test_general does with the meridian through its reference    *)
(* point                                                                   *)

\* geographic_to_grid has not been called
NoForward ==
  /\ lat_rad = 0
  /\ lon_rad = 0
  /\ zone = GRID_AUTO
  /\ hemi = HEMI_AUTO
  /\ N = Uninit
  /\ E = Uninit
  /\ ret = -1
  /\ zone_req = zone
  /\ hemi_req = hemi
  /\ call = NoCall

\* scale factors (in 1/10000), meridians, false origins, latitudes and
\* offsets from the meridian the caller passes
DirectK0 == {UTM_K0, 10000}
DirectMeridians == {0, RAD(9), RAD(-177)}
DirectFN == {0, UTM_FN_SH}
DirectFE == {0, UTM_FE}
DirectLats == {RAD(-90), RAD(-45), 0, RAD(60), RAD(90)}
DirectOffsets == {-RAD(3), -1, 0, 1, RAD(3)}

DirectInit ==
  /\ \E el \in Ellipsoids : a = el.a /\ e2 = el.e2
  /\ NoForward
  /\ NoInverse
  /\ NoThreads
  /\ legacy = NoCall
  /\ \E k0 \in DirectK0, lon_mer \in DirectMeridians, FN_ \in DirectFN, FE_ \in DirectFE,
        lat \in DirectLats, d \in DirectOffsets :
       direct = [prim |-> "none", k0 |-> k0, lon_mer |-> lon_mer, FN |-> FN_, FE |-> FE_,
                 lat |-> lat, lon |-> lon_mer + d, N |-> Uninit, E |-> Uninit]

\* the caller's N and E after a call that wrote r
DirectCall(prim, r) ==
  /\ direct.prim = "none"
  /\ direct' = [direct EXCEPT !.prim = prim, !.N = r.N, !.E = r.E]
  /\ UNCHANGED <<a, e2, fwd, inv, thr, legacy>>

\* geographic_to_tm(a, e2, k0, lon_mer, FN, FE, lat, lon, &N, &E)
DirectTm ==
  DirectCall("geographic_to_tm",
             geographic_to_tm(a, e2, direct.k0, direct.lon_mer, direct.FN, direct.FE,
                              direct.lat, direct.lon))

\* dmatm_geographic_to_tm(a, e2, k0, lon_mer, FN, FE, lat, lon, &N, &E)
DirectDmatmTm ==
  DirectCall("dmatm_geographic_to_tm",
             dmatm_geographic_to_tm(a, e2, direct.k0, direct.lon_mer, direct.FN, direct.FE,
                                    direct.lat, direct.lon))

DirectNext == DirectTm \/ DirectDmatmTm

SpecDirect == DirectInit /\ [][DirectNext]_vars

---------------------------------------------------------------------------
(* the inverse transverse Mercator call of the DMATM series                *)
(* (tm_to_geographic of the earlier file, dmatm_tm_to_geographic now),     *)
(* statement by statement: it iterates on phi until the meridional arc     *)
(* S(phi)*k0 is within TM_TO_GEOGRAPHIC_TOLERANCE_M of y                   *)

\* doubles that are not finite
NaN == <<"nan">>
Inf == <<"inf">>
IsFinite(d) == d[1] \in {"m", "phi", "T1"}

\* double y = N-FN, double x = E-FE
Minus(d, F) == IF d[1] = "m" THEN Metres(d[2] - F) ELSE d

\* evaluations of S(phi) up to the first whose residual fabs(T1-y) is below
\* 0.001: phi = 0 gives S = 0 and e2 = 0 gives S = a*phi, so the first
\* residual is 0 up to rounding; for the ellipsoid of the tests and
\* y = 3322824 the residuals are 8.27e+03, 13.6, 0.0224 and 3.7e-05
Evaluations(e2_, y) == IF y[2] = 0 \/ e2_ = 0 THEN 1 ELSE 4

\* double phi = y/b/k0: the first iterate for a finite y
FirstPhi(y) == IF y[1] = "m" THEN <<"phi", y[2], 1>> ELSE y

\* double T1 = S*k0 where S is a series in phi, sin(phi) and cos(phi): the
\* sine of an infinite phi is not a number
ArcLength(phi) == IF IsFinite(phi) THEN <<"T1", phi[2], phi[3]>> ELSE NaN

\* fabs(T1-y) < TM_TO_GEOGRAPHIC_TOLERANCE_M: false when either is not a
\* number
ResidualBelowTolerance(e2_, T1, y) ==
  /\ IsFinite(T1)
  /\ IsFinite(y)
  /\ T1[3] >= Evaluations(e2_, y)

\* phi *= y/T1: the next iterate; not a number when T1 is not
NextPhi(phi, y, T1) ==
  IF IsFinite(phi) /\ IsFinite(y) /\ IsFinite(T1) THEN <<"phi", phi[2], phi[3] + 1>> ELSE NaN

\* northings and eastings the caller passes: the false origin, a point of
\* the backward tests, and values that are not finite
LegacyNorthings(FN_) == {Metres(FN_), Metres(FN_ + 3322824), NaN, Inf}
LegacyEastings(FE_) == {Metres(FE_), Metres(210577)}

LegacyInit ==
  /\ \E el \in Ellipsoids : a = el.a /\ e2 = el.e2
  /\ NoForward
  /\ NoInverse
  /\ NoThreads
  /\ direct = NoCall
  /\ \E k0 \in DirectK0, FN_ \in DirectFN :
     \E n \in LegacyNorthings(FN_), e \in LegacyEastings(UTM_FE) :
       legacy = [prim |-> "dmatm_tm_to_geographic", pc |-> "call", k0 |-> k0,
                 lon_mer |-> RAD(9), FN |-> FN_, FE |-> UTM_FE, N |-> n, E |-> e,
                 x |-> Uninit, y |-> Uninit, phi |-> Uninit, T1 |-> Uninit,
                 lat |-> Uninit, lon |-> Uninit]

LegacyStatement(pc, me) ==
  /\ legacy.prim = "dmatm_tm_to_geographic"
  /\ legacy.pc = pc
  /\ legacy' = me
  /\ UNCHANGED <<a, e2, fwd, inv, thr, direct>>

\* double x = E-FE; double y = N-FN; double phi = y/b/k0;
LegacyEnter ==
  LET y == Minus(legacy.N, legacy.FN)
  IN  LegacyStatement("call",
        [legacy EXCEPT !.pc = "evaluate", !.x = Minus(legacy.E, legacy.FE), !.y = y,
                       !.phi = FirstPhi(y)])

\* while(1) { ... double T1 = S*k0; if(fabs(T1-y) < tolerance) break;
LegacyEvaluate ==
  LET T1 == ArcLength(legacy.phi)
  IN  LegacyStatement("evaluate",
        [legacy EXCEPT !.T1 = T1,
                       !.pc = IF ResidualBelowTolerance(e2, T1, legacy.y)
                              THEN "series" ELSE "update"])

\* phi *= y/T1; } and back to the head of the loop
LegacyUpdate ==
  LegacyStatement("update",
    [legacy EXCEPT !.pc = "evaluate", !.phi = NextPhi(legacy.phi, legacy.y, legacy.T1)])

\* *lat_rad = phi - x2*T10 + ...; *lon_rad = lon_mer + x*(T14 - ...); and the
\* function, which is void, returns
LegacyReturn ==
  LegacyStatement("series",
    [legacy EXCEPT !.pc = "done",
                   !.lat = <<"dmatm.lat", legacy.phi, legacy.x>>,
                   !.lon = <<"dmatm.lon", legacy.lon_mer, legacy.phi, legacy.x>>])

LegacyNext == LegacyEnter \/ LegacyEvaluate \/ LegacyUpdate \/ LegacyReturn

\* the call is synchronous: the caller's thread goes on executing its
\* statements until it returns
SpecLegacy == LegacyInit /\ [][LegacyNext]_vars /\ WF_vars(LegacyNext)

LegacyReturned == legacy.prim = "dmatm_tm_to_geographic" /\ legacy.pc = "done"

\* C22: the iteration of the DMATM inverse has a hard cap besides the
\* tolerance test, so that every call returns, also one whose residual
\* never drops below the tolerance.
C22_IterationIsCapped == <>LegacyReturned

\* the error the caller is given: the function is void and writes nothing
\* but *lat_rad and *lon_rad, so no statement reports one
LegacyReportedError == legacy.prim = "dmatm_tm_to_geographic" /\ legacy.pc = "error"

\* C23: a call of the DMATM inverse whose iteration does not meet the
\* tolerance reports the non-convergence to its caller as an error, and a
\* call that returns a latitude and longitude computed them from a phi
\* whose residual was below the tolerance.
C23_NonConvergenceReported ==
  /\ [](LegacyReturned => ResidualBelowTolerance(e2, legacy.T1, legacy.y))
  /\ <>(LegacyReturned \/ LegacyReportedError)
====
